---- MODULE Spec2Model ----
(***************************************************************************)
(* Model of src/module/internal/find-path.js: findPath and its helpers     *)
(* tryExtensions, tryField, tryFilename, tryPackage and resolveExports,    *)
(* and of src/env/get-options.js: getOptions.                              *)
(*                                                                         *)
(* A JavaScript string is a sequence of one-character strings, so that     *)
(* concatenation, substring, startsWith, split and replace are computed    *)
(* and not assumed.  The empty sequence is the "" sentinel.  The value     *)
(* null is the one-element sequence <<"null">>, which no path equals.      *)
(***************************************************************************)
EXTENDS Integers, Sequences, FiniteSets, TLC

VARIABLES fs, flags, cache, last, hist, calls, env, processEnv

vars == <<fs, flags, cache, last, hist, calls, env, processEnv>>

-----------------------------------------------------------------------------
(* JavaScript string primitives *)

null == <<"null">>

NUL == <<"\\0">>

COMMA == <<",">>

sep == <<"/">>

Min(a, b) == IF a < b THEN a ELSE b

Max(a, b) == IF a > b THEN a ELSE b

\* String.prototype.substring(from, to), 0-based, clamped, arguments swapped
\* when from > to.
substring(s, from, to) ==
  LET f == Min(Max(from, 0), Len(s))
      t == Min(Max(to, 0), Len(s))
      lo == Min(f, t)
      hi == Max(f, t)
  IN SubSeq(s, lo + 1, hi)

startsWith(s, p) == Len(p) <= Len(s) /\ SubSeq(s, 1, Len(p)) = p

endsWith(s, p) == Len(p) <= Len(s) /\ SubSeq(s, Len(s) - Len(p) + 1, Len(s)) = p

\* index (1-based) of the first occurrence of the character c in s, 0 if none
indexOf(s, c) ==
  IF \E i \in 1..Len(s) : s[i] = c
  THEN CHOOSE i \in 1..Len(s) : s[i] = c /\ \A j \in 1..(i - 1) : s[j] # c
  ELSE 0

\* index (1-based) of the last occurrence of the character c in s, 0 if none
lastIndexOf(s, c) ==
  IF \E i \in 1..Len(s) : s[i] = c
  THEN CHOOSE i \in 1..Len(s) : s[i] = c /\ \A j \in (i + 1)..Len(s) : s[j] # c
  ELSE 0

\* s.replace("*", r): the first "*" only
replaceStar(s, r) ==
  LET i == indexOf(s, "*")
  IN IF i = 0 THEN s ELSE SubSeq(s, 1, i - 1) \o r \o SubSeq(s, i + 1, Len(s))

\* Array.prototype.join(): the elements separated by ","
RECURSIVE arrayJoin(_)
arrayJoin(a) ==
  IF Len(a) = 0 THEN <<>>
  ELSE IF Len(a) = 1 THEN a[1]
  ELSE a[1] \o COMMA \o arrayJoin(Tail(a))

-----------------------------------------------------------------------------
(* node's posix path module, as imported from safe/path.js *)

\* the segments of s between "/" characters (empty segments included)
RECURSIVE segments(_)
segments(s) ==
  LET i == indexOf(s, "/")
  IN IF i = 0 THEN <<s>>
     ELSE <<SubSeq(s, 1, i - 1)>> \o segments(SubSeq(s, i + 1, Len(s)))

\* normalizeString: drops "" and "." segments, resolves ".." against the
\* segments kept so far (above the root of an absolute path ".." is dropped)
RECURSIVE normalizeSegments(_, _, _)
normalizeSegments(segs, acc, isAbs) ==
  IF Len(segs) = 0 THEN acc
  ELSE LET h == Head(segs)
       IN IF h = <<>> \/ h = <<".">>
          THEN normalizeSegments(Tail(segs), acc, isAbs)
          ELSE IF h = <<".", ".">>
          THEN IF Len(acc) > 0 /\ acc[Len(acc)] # <<".", ".">>
               THEN normalizeSegments(Tail(segs), SubSeq(acc, 1, Len(acc) - 1), isAbs)
               ELSE IF isAbs
               THEN normalizeSegments(Tail(segs), acc, isAbs)
               ELSE normalizeSegments(Tail(segs), Append(acc, h), isAbs)
          ELSE normalizeSegments(Tail(segs), Append(acc, h), isAbs)

RECURSIVE joinSegments(_)
joinSegments(segs) ==
  IF Len(segs) = 0 THEN <<>>
  ELSE IF Len(segs) = 1 THEN segs[1]
  ELSE segs[1] \o sep \o joinSegments(Tail(segs))

isAbsolute(s) == Len(s) > 0 /\ s[1] = "/"

\* path.normalize: a trailing separator is kept
normalize(s) ==
  IF Len(s) = 0 THEN <<".">>
  ELSE LET abs == isAbsolute(s)
           trail == s[Len(s)] = "/"
           body == joinSegments(normalizeSegments(segments(s), <<>>, abs))
       IN IF body = <<>>
          THEN (IF abs THEN sep ELSE IF trail THEN <<".", "/">> ELSE <<".">>)
          ELSE (IF abs THEN sep ELSE <<>>) \o body \o (IF trail THEN sep ELSE <<>>)

\* path.join(a, b): the non-empty arguments joined by "/" and normalized
join(a, b) ==
  IF Len(a) = 0 /\ Len(b) = 0 THEN <<".">>
  ELSE IF Len(a) = 0 THEN normalize(b)
  ELSE IF Len(b) = 0 THEN normalize(a)
  ELSE normalize(a \o sep \o b)

\* path.resolve(a, b) for an absolute a: no trailing separator is kept
resolve(a, b) ==
  LET s == IF isAbsolute(b) THEN b ELSE a \o sep \o b
  IN sep \o joinSegments(normalizeSegments(segments(s), <<>>, TRUE))

\* s without its trailing separators (one character is always kept)
RECURSIVE stripTrailingSeps(_)
stripTrailingSeps(s) ==
  IF Len(s) > 1 /\ s[Len(s)] = "/"
  THEN stripTrailingSeps(SubSeq(s, 1, Len(s) - 1))
  ELSE s

\* path.dirname: the part before the last separator that follows a
\* non-separator character; it is not normalized
dirname(s) ==
  IF Len(s) = 0 THEN <<".">>
  ELSE LET t == stripTrailingSeps(s)
           i == lastIndexOf(t, "/")
       IN IF i <= 1 THEN (IF isAbsolute(s) THEN sep ELSE <<".">>)
          ELSE IF isAbsolute(s) /\ i = 2 THEN <<"/", "/">>
          ELSE SubSeq(t, 1, i - 1)

\* path.basename
basename(s) ==
  LET t == stripTrailingSeps(s)
      i == lastIndexOf(t, "/")
  IN IF t = sep THEN <<>> ELSE SubSeq(t, i + 1, Len(t))

-----------------------------------------------------------------------------
(* The collaborators: path tests, the filesystem probes, the descriptor     *)
(* reader.  fs is the disk: fs.files and fs.dirs hold canonical paths,      *)
(* fs.links the symbolic links (from |-> to, both canonical), fs.pkgs the   *)
(* parsed package.json of the directories that have one, fs.broken the      *)
(* paths that exist and that realpath fails on.                             *)

\* path/is-sep.js on posix; charCodeAt beyond the string is NaN, no separator
isSep(s, i) == i >= 1 /\ i <= Len(s) /\ s[i] = "/"

isString(v) == v # null

\* path/is-ext-js.js
isExtJS(v) == isString(v) /\ Len(v) > 3 /\ endsWith(v, <<".", "j", "s">>)

\* path/is-ext-mjs.js: false for a value that is no string
isExtMJS(v) == isString(v) /\ Len(v) > 4 /\ endsWith(v, <<".", "m", "j", "s">>)

\* the canonical path p names: normalized, a symbolic link on it followed
followLink(q, l) == l.to \o SubSeq(q, Len(l.from) + 1, Len(q))

follow(q, hit) == IF hit = {} THEN q ELSE followLink(q, CHOOSE l \in hit : TRUE)

linksOn(q) == {l \in fs.links : q = l.from \/ startsWith(q, l.from \o sep)}

canonOf(q) == follow(q, linksOn(q))

canon(p) == canonOf(resolve(sep, p))

\* p is written as a directory: only a directory answers to it
dirForm(p) == endsWith(p, sep) \/ endsWith(p, <<"/", ".">>)

\* 0 a file, 1 a directory, -1 nothing (the rc of the fast probe)
kindOf(q, p) ==
  IF q \in fs.dirs THEN 1
  ELSE IF q \in fs.files /\ ~dirForm(p) THEN 0
  ELSE -1

kind(p) == kindOf(canon(p), p)

Probe(op, p) == [op |-> op, path |-> p]

NoErr == [request |-> <<>>, jsonPath |-> <<>>]

NoWarn == [emitted |-> FALSE, field |-> <<>>, value |-> [t |-> "undef", s |-> <<>>]]

NoVia == [by |-> "none", field |-> <<>>]

\* a returned value with the probes made for it, in order
Ret(res, log) ==
  [res |-> res, log |-> log, thrown |-> FALSE, err |-> NoErr, warn |-> NoWarn, via |-> NoVia]

\* the outcome out, reached after the probes of log
after(log, out) == [out EXCEPT !.log = log \o @]

\* the outcome out, marked with the strategy that gave it
by(out, strategy, field) ==
  IF out.res = <<>> \/ out.thrown THEN out
  ELSE [out EXCEPT !.via = [by |-> strategy, field |-> field]]

\* first unless it is "", then second (first's probes kept)
orElse(first, second) == IF first.res # <<>> THEN first ELSE after(first.log, second)

\* fs/stat-fast.js
statFast(p) == [rc |-> kind(p), log |-> <<Probe("statFast", p)>>]

\* fs/stat-sync.js followed by Stats.prototype.isFile: -1 for a null stat,
\* 0 for a regular file, 1 for anything else that exists
statSync(p) == [rc |-> kind(p), log |-> <<Probe("statSync", p)>>]

realpathOf(q, p) ==
  Ret(IF kindOf(q, p) = -1 \/ q \in fs.broken THEN <<>> ELSE q, <<Probe("realpath", p)>>)

\* fs/realpath.js: "" when the path cannot be canonicalized
realpath(p) == realpathOf(canon(p), p)

\* safe/fs.js existsSync
existsSync(p) == [res |-> kind(p) # -1, log |-> <<Probe("existsSync", p)>>]

undefined == [t |-> "undef", s |-> <<>>, a |-> <<>>, k |-> <<>>, c |-> <<>>]

NoJson == [present |-> FALSE, fields |-> <<>>, exports |-> undefined]

jsonAt(q) == IF q \in DOMAIN fs.pkgs THEN fs.pkgs[q] ELSE NoJson

\* module/internal/read-package.js: the descriptor of dirPath, or none
readPackage(dirPath) ==
  [json |-> jsonAt(canon(dirPath)), log |-> <<Probe("readPackage", dirPath)>>]

-----------------------------------------------------------------------------
(* find-path.js.  Every function returns its value (res) with the          *)
(* filesystem probes it made, in order (log); tryPackage and findPath also *)
(* say whether MAIN_NOT_FOUND was thrown (thrown, err), whether the        *)
(* deprecation warning was emitted (warn) and which strategy gave the      *)
(* value (via).  A value computed once and used several times in the code  *)
(* is the first parameter of a helper named after the function.            *)

MAIN == <<"m", "a", "i", "n">>

mainFields == <<MAIN>>

\* keys(Module._extensions)
moduleExtensions == << <<".", "j", "s">>, <<".", "j", "s", "o", "n">>, <<".", "n", "o", "d", "e">> >>

preserveAllSymlinks == flags.TINK \/ flags.YARN_PNP

resolveSymlinks == ~preserveAllSymlinks /\ ~flags.preserveSymlinks

resolveSymlinksMain == ~preserveAllSymlinks /\ ~flags.preserveSymlinksMain

useRealpathOf(isMain) == IF isMain THEN resolveSymlinksMain ELSE resolveSymlinks

\* the rc of a path: the precise stat for a script extension, else the fast probe
classify(thePath) ==
  IF isExtJS(thePath) \/ isExtMJS(thePath) THEN statSync(thePath) ELSE statFast(thePath)

tryFilenameRc(c, filename, isMain) ==
  IF c.rc # 0 THEN Ret(<<>>, c.log)
  ELSE IF useRealpathOf(isMain) THEN after(c.log, realpath(filename))
  ELSE Ret(filename, c.log)

tryFilename(filename, isMain) == tryFilenameRc(classify(filename), filename, isMain)

RECURSIVE tryExtensions(_, _, _)
tryExtensions(thePath, exts, isMain) ==
  IF Len(exts) = 0 THEN Ret(<<>>, <<>>)
  ELSE orElse(tryFilename(thePath \o Head(exts), isMain),
              tryExtensions(thePath, Tail(exts), isMain))

INDEX == <<"i", "n", "d", "e", "x">>

\* a faulty order, the index of the directory before the extensions: what
\* the order of a field's attempts rules out
tryFieldPathIndexFirst(thePath, exts, isMain) ==
  orElse(tryFilename(thePath, isMain),
         orElse(tryExtensions(thePath \o sep \o INDEX, exts, isMain),
                tryExtensions(thePath, exts, isMain)))

tryFieldPath(thePath, exts, isMain) ==
  orElse(tryFilename(thePath, isMain),
         orElse(tryExtensions(thePath, exts, isMain),
                tryExtensions(thePath \o sep \o INDEX, exts, isMain)))

tryField(dirPath, fieldPath, exts, isMain) ==
  IF fieldPath.t # "str" THEN Ret(<<>>, <<>>)
  ELSE tryFieldPath(resolve(dirPath, fieldPath.s), exts, isMain)

\* a JavaScript value of the exports declaration used as a condition
truthy(node) == node.t \in {"arr", "obj"} \/ (node.t = "str" /\ node.s # <<>>)

\* exports[key]
prop(node, key) ==
  IF \E i \in 1..Len(node.k) : node.k[i] = key
  THEN node.c[CHOOSE i \in 1..Len(node.k) : node.k[i] = key]
  ELSE undefined

REQUIRE == <<"r", "e", "q", "u", "i", "r", "e">>

NODE == <<"n", "o", "d", "e">>

DEFAULT == <<"d", "e", "f", "a", "u", "l", "t">>

IMPORT == <<"i", "m", "p", "o", "r", "t">>

DOTKEY == <<".">>

wellKnownConditions == {IMPORT, REQUIRE, NODE, DEFAULT, DOTKEY}

\* const [startsWith, endsWith] = condition.split("*"); an endsWith that is
\* undefined (no "*") and one that is "" are both falsy and both are <<>> here
splitAt(condition, i) ==
  IF i = 0 THEN [startsWith |-> condition, endsWith |-> <<>>]
  ELSE [startsWith |-> SubSeq(condition, 1, i - 1),
        endsWith |-> substring(condition, i,
                       IF indexOf(SubSeq(condition, i + 1, Len(condition)), "*") = 0
                       THEN Len(condition)
                       ELSE i + indexOf(SubSeq(condition, i + 1, Len(condition)), "*") - 1)]

splitCondition(condition) == splitAt(condition, indexOf(condition, "*"))

existing(e, exportPath) == [found |-> e.res, v |-> exportPath, log |-> e.log]

\* exports.find(exportPath => existsSync(join(packagePath, exportPath)))
RECURSIVE findAvailable(_, _)
findAvailable(list, packagePath) ==
  IF Len(list) = 0 THEN [found |-> FALSE, v |-> <<>>, log |-> <<>>]
  ELSE LET e == existing(existsSync(join(packagePath, Head(list))), Head(list))
       IN IF e.found THEN e
          ELSE [findAvailable(Tail(list), packagePath) EXCEPT !.log = e.log \o @]

\* the test of conditions.find on one pattern
matchesSplit(sc, normalizedSubpath) ==
  /\ startsWith(normalizedSubpath, sc.startsWith)
  /\ (sc.endsWith = <<>> \/ endsWith(normalizedSubpath, sc.endsWith))

matches(exports, i, normalizedSubpath) ==
  /\ exports.k[i] \notin wellKnownConditions
  /\ matchesSplit(splitCondition(exports.k[i]), normalizedSubpath)

\* the index in exports.k of the first pattern key that matches, 0 if none
matchedCondition(exports, normalizedSubpath) ==
  IF \E i \in 1..Len(exports.k) : matches(exports, i, normalizedSubpath)
  THEN CHOOSE i \in 1..Len(exports.k) :
         /\ matches(exports, i, normalizedSubpath)
         /\ \A j \in 1..(i - 1) : ~matches(exports, j, normalizedSubpath)
  ELSE 0

\* a faulty precedence, node before require: what the precedence property rules out
selectedConditionNodeFirst(exports, subpath) ==
  IF truthy(prop(exports, NODE)) THEN NODE
  ELSE IF truthy(prop(exports, REQUIRE)) THEN REQUIRE
  ELSE IF truthy(prop(exports, DEFAULT)) THEN DEFAULT
  ELSE IF truthy(prop(exports, DOTKEY)) /\ subpath = <<>> THEN DOTKEY
  ELSE <<>>

\* the chain of if (exports.require) ... if (exports["."] && !subpath): the
\* condition resolveExports recurses into, <<>> when it reaches none
selectedCondition(exports, subpath) ==
  IF truthy(prop(exports, REQUIRE)) THEN REQUIRE
  ELSE IF truthy(prop(exports, NODE)) THEN NODE
  ELSE IF truthy(prop(exports, DEFAULT)) THEN DEFAULT
  ELSE IF truthy(prop(exports, DOTKEY)) /\ subpath = <<>> THEN DOTKEY
  ELSE <<>>

resolveAvailable(f, packagePath) ==
  IF f.found /\ f.v # <<>> THEN Ret(join(packagePath, f.v), f.log) ELSE Ret(null, f.log)

\* the replacement of "*" in a literal target
resolveStar(sc, target, packagePath, normalizedSubpath) ==
  Ret(join(packagePath,
           replaceStar(target.s,
                       substring(normalizedSubpath, Len(sc.startsWith),
                                 Len(normalizedSubpath) - Len(sc.endsWith)))),
      <<>>)

RECURSIVE resolveExports(_, _, _)

resolveMatched(sc, target, packagePath, normalizedSubpath, subpath) ==
  IF sc.endsWith # <<>> /\ target.t = "str"
  THEN resolveStar(sc, target, packagePath, normalizedSubpath)
  ELSE resolveExports(target, packagePath, subpath)

resolvePattern(m, exports, packagePath, normalizedSubpath, subpath) ==
  IF m = 0 THEN Ret(null, <<>>)
  ELSE resolveMatched(splitCondition(exports.k[m]), exports.c[m], packagePath,
                      normalizedSubpath, subpath)

resolveCondition(condition, exports, packagePath, subpath) ==
  IF condition # <<>>
  THEN resolveExports(prop(exports, condition), packagePath, subpath)
  ELSE IF subpath = <<>> THEN Ret(null, <<>>)
  ELSE resolvePattern(matchedCondition(exports, <<".", "/">> \o subpath), exports,
                      packagePath, <<".", "/">> \o subpath, subpath)

resolveExports(exports, packagePath, subpath) ==
  IF exports.t = "str" THEN Ret(join(packagePath, exports.s), <<>>)
  ELSE IF exports.t = "arr"
  THEN resolveAvailable(findAvailable(exports.a, packagePath), packagePath)
  ELSE resolveCondition(selectedCondition(exports, subpath), exports, packagePath, subpath)

\* json[field]
fieldOf(json, field) ==
  IF \E i \in 1..Len(json.fields) : json.fields[i].name = field
  THEN json.fields[CHOOSE i \in 1..Len(json.fields) : json.fields[i].name = field].value
  ELSE [t |-> "undef", s |-> <<>>]

RECURSIVE tryFields(_, _, _, _, _, _)

\* a faulty loop that accepts whatever a field gives: what the rejection of
\* ESM-flagged paths rules out
tryFieldsFoundAny(f, json, dirPath, fields, exts, isMain, i) ==
  IF f.res # <<>>
  THEN by(f, "field", fields[i])
  ELSE after(f.log, tryFields(json, dirPath, fields, exts, isMain, i + 1))

tryFieldsFound(f, json, dirPath, fields, exts, isMain, i) ==
  IF f.res # <<>> /\ (fields[i] = MAIN \/ ~isExtMJS(f.res))
  THEN by(f, "field", fields[i])
  ELSE after(f.log, tryFields(json, dirPath, fields, exts, isMain, i + 1))

\* the loop over fields of tryPackage, from field number i on
tryFields(json, dirPath, fields, exts, isMain, i) ==
  IF i > Len(fields) THEN Ret(<<>>, <<>>)
  ELSE tryFieldsFound(tryField(dirPath, fieldOf(json, fields[i]), exts, isMain),
                      json, dirPath, fields, exts, isMain, i)

PACKAGE_JSON == <<"p", "a", "c", "k", "a", "g", "e", ".", "j", "s", "o", "n">>

\* the field the loop over fields left in the variable field, and its value
lastField(fields) == IF Len(fields) = 0 THEN <<>> ELSE fields[Len(fields)]

\* a faulty warning that does not look at the deprecation mode: what the
\* conditions of the warning rule out
emitWarningAlways(json, fields) ==
  [emitted |-> TRUE, field |-> lastField(fields),
   value |-> IF Len(fields) = 0 THEN [t |-> "undef", s |-> <<>>]
             ELSE fieldOf(json, lastField(fields))]

emitWarning(json, fields) ==
  IF flags.pendingDeprecation
  THEN [emitted |-> TRUE, field |-> lastField(fields),
        value |-> IF Len(fields) = 0 THEN [t |-> "undef", s |-> <<>>]
                  ELSE fieldOf(json, lastField(fields))]
  ELSE NoWarn

tryIndexFound(x, request, dirPath, fields, json) ==
  IF x.res = <<>>
  THEN [x EXCEPT !.thrown = TRUE,
                 !.err = [request |-> request, jsonPath |-> dirPath \o sep \o PACKAGE_JSON]]
  ELSE [by(x, "index", <<>>) EXCEPT !.warn = emitWarning(json, fields)]

\* the index fallback of a directory that has a descriptor, with the throw
\* and the warning that follow it
tryIndex(request, dirPath, fields, json, exts, isMain) ==
  tryIndexFound(tryExtensions(dirPath \o sep \o INDEX, exts, isMain),
                request, dirPath, fields, json)

tryPackageExports(e, request, dirPath, fields, json, exts, isMain) ==
  IF e.res # <<>> /\ ~isExtMJS(e.res)
  THEN by(e, "exports", <<>>)
  ELSE after(e.log, tryIndex(request, dirPath, fields, json, exts, isMain))

tryPackageFields(f, request, dirPath, fields, json, exts, isMain) ==
  IF f.res # <<>> THEN f
  ELSE after(f.log,
             tryPackageExports(
               IF truthy(json.exports)
               THEN resolveExports(json.exports, dirPath,
                                   substring(request, Len(dirPath) + 1, Len(request)))
               ELSE Ret(<<>>, <<>>),
               request, dirPath, fields, json, exts, isMain))

\* a faulty start that treats a missing descriptor like an empty one: what
\* the silent fallback of a directory without descriptor rules out
tryPackageJsonStrict(rp, request, dirPath, fields, exts, isMain) ==
  after(rp.log,
        IF ~rp.json.present
        THEN tryIndex(request, dirPath, fields, rp.json, exts, isMain)
        ELSE tryPackageFields(tryFields(rp.json, dirPath, fields, exts, isMain, 1),
                              request, dirPath, fields, rp.json, exts, isMain))

tryPackageJson(rp, request, dirPath, fields, exts, isMain) ==
  after(rp.log,
        IF ~rp.json.present
        THEN by(tryExtensions(dirPath \o sep \o INDEX, exts, isMain), "index", <<>>)
        ELSE tryPackageFields(tryFields(rp.json, dirPath, fields, exts, isMain, 1),
                              request, dirPath, fields, rp.json, exts, isMain))

tryPackage(request, dirPath, fields, exts, isMain) ==
  tryPackageJson(readPackage(dirPath), request, dirPath, fields, exts, isMain)

\* an optional argument: undefined, or a list
None == [some |-> FALSE, v |-> <<>>]

Some(list) == [some |-> TRUE, v |-> list]

\* one element as it is, else the elements joined by ","
keyPart(list) == IF Len(list) = 1 THEN list[1] ELSE arrayJoin(list)

cacheKey(request, paths, isMain, fields, exts) ==
  request \o NUL \o keyPart(paths) \o NUL
    \o (IF fields.some THEN keyPart(fields.v) ELSE <<>>) \o NUL
    \o (IF exts.some THEN keyPart(exts.v) ELSE <<>>) \o NUL
    \o (IF isMain THEN <<"1">> ELSE <<>>)

\* a faulty scan that steps back over one "." only: what the definition of
\* a trailing slash rules out
trailingAtOnce(request, n) ==
  IF n >= 1 /\ request[n] = "." THEN n - 1 ELSE n

\* the position of the character isSep is asked about
trailingAt(request, n) ==
  IF n >= 1 /\ request[n] = "."
  THEN (IF n >= 2 /\ request[n - 1] = "." THEN n - 2 ELSE n - 1)
  ELSE n

trailingSlash(request) ==
  Len(request) # 0 /\ isSep(request, trailingAt(request, Len(request)))

\* a faulty setup that never splits an absolute request: what the resolution
\* of an absolute file rules out
searchSetupWhole(request, paths, isAbs, useRealpath) ==
  IF isAbs THEN [paths |-> <<request>>, request |-> request]
  ELSE [paths |-> paths, request |-> request]

\* if (isAbs) { ... }: the search paths and the request the loop works on
searchSetup(request, paths, isAbs, useRealpath) ==
  IF isAbs
  THEN IF useRealpath
       THEN [paths |-> <<dirname(request)>>, request |-> basename(request)]
       ELSE [paths |-> <<request>>, request |-> request]
  ELSE [paths |-> paths, request |-> request]

theExts(exts) == IF exts.some THEN exts.v ELSE moduleExtensions

theFields(fields) == IF fields.some THEN fields.v ELSE mainFields

\* if (rc === 1 && foundPath === "") foundPath = tryPackage(...)
candidateFound(found, c, thePath, request, isMain, fields, exts) ==
  IF found.res # <<>> THEN found
  ELSE after(found.log,
             IF c.rc = 1
             THEN tryPackage(request, thePath, theFields(fields), theExts(exts), isMain)
             ELSE Ret(<<>>, <<>>))

\* if (! trailingSlash) { ... }: the path as a file, then with the extensions
candidateFile(c, thePath, isMain, exts, trailing) ==
  IF trailing THEN Ret(<<>>, <<>>)
  ELSE orElse(IF c.rc = 0
              THEN (IF useRealpathOf(isMain)
                    THEN by(realpath(thePath), "file", <<>>)
                    ELSE by(Ret(thePath, <<>>), "file", <<>>))
              ELSE Ret(<<>>, <<>>),
              by(tryExtensions(thePath, theExts(exts), isMain), "ext", <<>>))

candidateRc(c, thePath, request, isMain, fields, exts, trailing) ==
  after(c.log,
        candidateFound(candidateFile(c, thePath, isMain, exts, trailing),
                       c, thePath, request, isMain, fields, exts))

candidatePath(thePath, request, isMain, fields, exts, trailing) ==
  candidateRc(classify(thePath), thePath, request, isMain, fields, exts, trailing)

candidateReal(rp, request, isAbs, isMain, fields, exts, trailing) ==
  IF rp.res = <<>> THEN rp
  ELSE after(rp.log,
             candidatePath(IF isAbs
                           THEN (IF useRealpathOf(isMain) THEN rp.res \o sep \o request
                                 ELSE rp.res)
                           ELSE resolve(rp.res, request),
                           request, isMain, fields, exts, trailing))

candidateStat(s0, curPath, request, isAbs, isMain, fields, exts, trailing) ==
  IF s0.rc # 1 THEN Ret(<<>>, s0.log)
  ELSE after(s0.log,
             candidateReal(IF useRealpathOf(isMain) THEN realpath(curPath)
                           ELSE Ret(curPath, <<>>),
                           request, isAbs, isMain, fields, exts, trailing))

\* the body of the loop over the search paths, for one curPath
candidate(curPath, request, isAbs, isMain, fields, exts, trailing) ==
  candidateStat(IF isAbs THEN [rc |-> 1, log |-> <<>>] ELSE statFast(curPath),
                curPath, request, isAbs, isMain, fields, exts, trailing)

RECURSIVE searchPaths(_, _, _, _, _, _, _, _)

\* a faulty loop that goes on after a result and keeps the last one: what the
\* order of the search paths rules out
searchPathsLast(c, paths, i, request, isAbs, isMain, fields, exts, trailing) ==
  IF c.thrown THEN c
  ELSE orElse(after(c.log,
                    searchPaths(paths, i + 1, request, isAbs, isMain, fields, exts, trailing)),
              [c EXCEPT !.log = <<>>])

searchPathsFound(c, paths, i, request, isAbs, isMain, fields, exts, trailing) ==
  IF c.thrown \/ c.res # <<>> THEN c
  ELSE after(c.log,
             searchPaths(paths, i + 1, request, isAbs, isMain, fields, exts, trailing))

\* for (const curPath of paths), from path number i on
searchPaths(paths, i, request, isAbs, isMain, fields, exts, trailing) ==
  IF i > Len(paths) THEN Ret(<<>>, <<>>)
  ELSE searchPathsFound(candidate(paths[i], request, isAbs, isMain, fields, exts, trailing),
                        paths, i, request, isAbs, isMain, fields, exts, trailing)

findPathSearch(setup, request, isAbs, isMain, fields, exts) ==
  searchPaths(setup.paths, 1, setup.request, isAbs, isMain, fields, exts,
              trailingSlash(request))

findPathMiss(r, key) ==
  [out |-> r, key |-> key, hit |-> FALSE, set |-> ~r.thrown /\ r.res # <<>>]

\* a faulty lookup that never reads the cache and stores again: what the
\* write-once property rules out
findPathKeyFresh(key, request, paths, isMain, fields, exts) ==
  IF ~isAbsolute(request) /\ Len(paths) = 0
  THEN [out |-> Ret(<<>>, <<>>), key |-> key, hit |-> FALSE, set |-> FALSE]
  ELSE findPathMiss(
         findPathSearch(searchSetup(request, paths, isAbsolute(request), useRealpathOf(isMain)),
                        request, isAbsolute(request), isMain, fields, exts),
         key)

findPathKey(key, request, paths, isMain, fields, exts) ==
  IF key \in DOMAIN cache
  THEN [out |-> Ret(cache[key], <<>>), key |-> key, hit |-> TRUE, set |-> FALSE]
  ELSE IF ~isAbsolute(request) /\ Len(paths) = 0
  THEN [out |-> Ret(<<>>, <<>>), key |-> key, hit |-> FALSE, set |-> FALSE]
  ELSE findPathMiss(
         findPathSearch(searchSetup(request, paths, isAbsolute(request), useRealpathOf(isMain)),
                        request, isAbsolute(request), isMain, fields, exts),
         key)

\* findPath against the cache as it stands: the outcome, whether it was a
\* cache hit, and whether the value is stored under key
findPath(request, paths, isMain, fields, exts) ==
  findPathKey(cacheKey(request, paths, isMain, fields, exts),
              request, paths, isMain, fields, exts)

-----------------------------------------------------------------------------
(* The disks, package descriptors and arguments the model runs on *)

Str(node) == [t |-> "str", s |-> node, a |-> <<>>, k |-> <<>>, c |-> <<>>]

Arr(list) == [t |-> "arr", s |-> <<>>, a |-> list, k |-> <<>>, c |-> <<>>]

Obj(keys, children) == [t |-> "obj", s |-> <<>>, a |-> <<>>, k |-> keys, c |-> children]

Field(name, value) == [name |-> name, value |-> value]

StrVal(s) == [t |-> "str", s |-> s]

NumVal == [t |-> "num", s |-> <<>>]

Json(fields, exports) == [present |-> TRUE, fields |-> fields, exports |-> exports]

MODULE_ == <<"m", "o", "d", "u", "l", "e">>

ROOT == <<"/", "r">>

ROOT2 == <<"/", "s">>

PKG == <<"/", "r", "/", "p">>

LINK == <<"/", "l">>

\* the exports declarations
ExportsNodes ==
  { undefined,
    Str(<<".", "/", "e", ".", "j", "s">>),
    Str(<<".", "/", "e", ".", "m", "j", "s">>),
    Arr(<<<<".", "/", "x", ".", "j", "s">>, <<".", "/", "e", ".", "j", "s">>>>),
    Arr(<<<<".", "/", "x", ".", "j", "s">>>>),
    Obj(<<REQUIRE, DEFAULT>>, <<Arr(<<<<".", "/", "x", ".", "j", "s">>>>), Str(<<".", "/", "e", ".", "j", "s">>)>>),
    Obj(<<NODE, REQUIRE>>, <<Str(<<".", "/", "e", ".", "j", "s">>), Str(<<".", "/", "m", ".", "j", "s">>)>>),
    Obj(<<DEFAULT, NODE>>, <<Str(<<".", "/", "m", ".", "j", "s">>), Arr(<<<<".", "/", "x", ".", "j", "s">>, <<".", "/", "e", ".", "j", "s">>>>)>>),
    Obj(<<DOTKEY, <<".", "/", "f", "e", "a", "t", "u", "r", "e">>>>, <<Str(<<".", "/", "e", ".", "j", "s">>), Str(<<".", "/", "m", ".", "j", "s">>)>>),
    Obj(<<DOTKEY, <<".", "/", "l", "i", "b", "/", "*">>>>, <<Obj(<<REQUIRE>>, <<Str(<<".", "/", "m", ".", "j", "s">>)>>), Str(<<".", "/", "d", "i", "s", "t", "/", "*", ".", "j", "s">>)>>),
    Obj(<<<<".", "/", "l", "i", "b", "/", "*", ".", "j", "s">>, <<".", "/", "l", "i", "b", "/", "*">>>>, <<Str(<<".", "/", "d", "i", "s", "t", "/", "*", ".", "j", "s">>), Str(<<".", "/", "d", "i", "s", "t", "/", "*", ".", "m", "j", "s">>)>>),
    Obj(<<IMPORT, <<".", "/", "f", "e", "a", "t", "u", "r", "e">>, <<".", "/", "l", "i", "b", "/", "*", ".", "j", "s">>>>,
        <<Str(<<".", "/", "e", ".", "m", "j", "s">>), Arr(<<<<".", "/", "x", ".", "j", "s">>>>), Obj(<<NODE>>, <<Str(<<".", "/", "e", ".", "j", "s">>)>>)>>) }

\* the entry-point fields of a descriptor
FieldLists ==
  { <<>>,
    <<Field(MAIN, StrVal(<<"m", ".", "j", "s">>))>>,
    <<Field(MAIN, StrVal(<<"m", ".", "m", "j", "s">>))>>,
    <<Field(MAIN, StrVal(<<"d", "i", "s", "t">>))>>,
    <<Field(MODULE_, StrVal(<<"m", ".", "m", "j", "s">>)), Field(MAIN, StrVal(<<"m", ".", "j", "s">>))>>,
    <<Field(MODULE_, StrVal(<<"m">>)), Field(MAIN, StrVal(<<"e", ".", "j", "s">>))>>,
    <<Field(MODULE_, NumVal), Field(MAIN, StrVal(<<"x", ".", "j", "s">>))>> }

Descriptors == {Json(f, e) : f \in FieldLists, e \in ExportsNodes}

BaseDirs == {sep, ROOT, ROOT2, PKG, <<"/", "r", "/", "p", "/", "d", "i", "s", "t">>}

Disk(files, pkgs, links) ==
  [files |-> files, dirs |-> BaseDirs, pkgs |-> pkgs, links |-> links, broken |-> {}]

Broken(disk, paths) == [disk EXCEPT !.broken = paths]

NoPkgs == [d \in {} |-> NoJson]

PkgAt(dir, json) == [d \in {dir} |-> json]

\* /l is a symbolic link to /r
Links == {[from |-> LINK, to |-> ROOT]}

Flags(tink, ps, psm, pd) ==
  [TINK |-> tink, YARN_PNP |-> FALSE, preserveSymlinks |-> ps,
   preserveSymlinksMain |-> psm, pendingDeprecation |-> pd]

JS == <<".", "j", "s">>

MJS == <<".", "m", "j", "s">>

-----------------------------------------------------------------------------
(* The state: the disk (fs), the process flags (flags), the memoized       *)
(* results shared.memoize.moduleInternalFindPath (cache), the last call    *)
(* with its outcome (last), the findPath calls completed so far (hist)     *)
(* and their number (calls).                                               *)

Args(request, paths, isMain, fields, exts, dirPath, exports, subpath) ==
  [request |-> request, paths |-> paths, isMain |-> isMain, fields |-> fields,
   exts |-> exts, dirPath |-> dirPath, exports |-> exports, subpath |-> subpath]

NoArgs == Args(<<>>, <<>>, FALSE, None, None, <<>>, undefined, <<>>)

Call(op, args, out, key, hit, prior) ==
  [op |-> op, args |-> args, out |-> out, key |-> key, hit |-> hit, prior |-> prior]

NoCall == Call("none", NoArgs, Ret(<<>>, <<>>), <<>>, FALSE, {})

EmptyCache == [k \in {} |-> <<>>]

\* the JavaScript value null, among the values of options
Null == [t |-> "null", s |-> <<>>]

\* shared.env before getOptions has stored anything
NoOptions == [has |-> FALSE, options |-> Null]

\* a process environment, with ESM_OPTIONS as given
Env(value) == [present |-> TRUE, ESM_OPTIONS |-> value]

\* a process environment without ESM_OPTIONS
NoEnv == Env([t |-> "undef", s |-> <<>>])

\* the disks of the unit specification: one package directory
UnitFileSets ==
  { {},
    {<<"/", "r", "/", "p", "/", "i", "n", "d", "e", "x", ".", "j", "s">>},
    {<<"/", "r", "/", "p", "/", "m", ".", "j", "s">>, <<"/", "r", "/", "p", "/", "m", ".", "m", "j", "s">>, <<"/", "r", "/", "p", "/", "i", "n", "d", "e", "x", ".", "j", "s">>},
    {<<"/", "r", "/", "p", "/", "m", ".", "m", "j", "s">>, <<"/", "r", "/", "p", "/", "i", "n", "d", "e", "x", ".", "m", "j", "s">>},
    {<<"/", "r", "/", "p", "/", "e", ".", "j", "s">>, <<"/", "r", "/", "p", "/", "i", "n", "d", "e", "x", ".", "j", "s">>},
    {<<"/", "r", "/", "p", "/", "e", ".", "m", "j", "s">>, <<"/", "r", "/", "p", "/", "m", ".", "j", "s">>},
    {<<"/", "r", "/", "p", "/", "d", "i", "s", "t", "/", "i", "n", "d", "e", "x", ".", "j", "s">>, <<"/", "r", "/", "p", "/", "d", "i", "s", "t", "/", "f", "o", "o", ".", "j", "s">>, <<"/", "r", "/", "p", "/", "m", ".", "j", "s">>},
    {<<"/", "r", "/", "p", "/", "m">>, <<"/", "r", "/", "p", "/", "m", ".", "j", "s">>, <<"/", "r", "/", "p", "/", "d", "i", "s", "t", ".", "j", "s">>, <<"/", "r", "/", "p", "/", "d", "i", "s", "t", "/", "i", "n", "d", "e", "x", ".", "j", "s">>},
    {<<"/", "r", "/", "p", "/", "i", "n", "d", "e", "x", ".", "j", "s">>, <<"/", "r", "/", "p", "/", "i", "n", "d", "e", "x", ".", "m", "j", "s">>, <<"/", "r", "/", "p", "/", "m", ".", "j", "s">>, <<"/", "r", "/", "p", "/", "m", ".", "m", "j", "s">>,
     <<"/", "r", "/", "p", "/", "e", ".", "j", "s">>, <<"/", "r", "/", "p", "/", "e", ".", "m", "j", "s">>, <<"/", "r", "/", "p", "/", "d", "i", "s", "t", "/", "i", "n", "d", "e", "x", ".", "j", "s">>, <<"/", "r", "/", "p", "/", "d", "i", "s", "t", "/", "f", "o", "o", ".", "j", "s">>} }

UnitDisks ==
  {Disk(f, PkgAt(PKG, d), {}) : f \in UnitFileSets, d \in Descriptors}
    \cup {Disk(f, NoPkgs, {}) : f \in UnitFileSets}

UnitFlags == {Flags(FALSE, FALSE, FALSE, FALSE), Flags(FALSE, TRUE, TRUE, TRUE)}

InitUnits ==
  /\ fs \in UnitDisks
  /\ flags \in UnitFlags
  /\ cache = EmptyCache
  /\ last = NoCall
  /\ hist = {}
  /\ calls = 0
  /\ env = NoOptions
  /\ processEnv = NoEnv

UnitRequests == {<<"p">>, <<"/", "r", "/", "p", "/", "f", "e", "a", "t", "u", "r", "e">>, <<"/", "r", "/", "p", "/", "l", "i", "b", "/", "f", "o", "o">>}

UnitFields == {<<>>, <<MAIN>>, <<MODULE_, MAIN>>}

UnitExts == {<<JS>>, <<MJS, JS>>}

Subpaths == {<<>>, <<"f", "e", "a", "t", "u", "r", "e">>, <<"l", "i", "b", "/", "f", "o", "o">>, <<"l", "i", "b", "/", "f", "o", "o", ".", "j", "s">>, <<"z", "z", "z">>}

\* tryPackage(request, dirPath, fields, exts, isMain) on the package directory
TryPackageCall ==
  /\ last.op = "none"
  /\ \E request \in UnitRequests, fields \in UnitFields, exts \in UnitExts, isMain \in BOOLEAN :
       last' = Call("tryPackage",
                    Args(request, <<>>, isMain, Some(fields), Some(exts), PKG, undefined, <<>>),
                    tryPackage(request, PKG, fields, exts, isMain), <<>>, FALSE, {})
  /\ UNCHANGED <<fs, flags, cache, hist, calls, env, processEnv>>

\* resolveExports(exports, packagePath, subpath) on the package directory; it
\* reads no descriptor, so the disks without one are enough
ResolveExportsCall ==
  /\ last.op = "none"
  /\ DOMAIN fs.pkgs = {}
  /\ \E exports \in ExportsNodes \ {undefined}, subpath \in Subpaths :
       last' = Call("resolveExports",
                    Args(<<>>, <<>>, FALSE, None, None, PKG, exports, subpath),
                    resolveExports(exports, PKG, subpath), <<>>, FALSE, {})
  /\ UNCHANGED <<fs, flags, cache, hist, calls, env, processEnv>>

NextUnits == TryPackageCall \/ ResolveExportsCall

SpecUnits == InitUnits /\ [][NextUnits]_vars

-----------------------------------------------------------------------------
(* findPath calls *)

\* a faulty store that keeps nothing: what the memoization property rules out
cacheSetNothing(key, value) == cache

\* cache.set(cacheKey, foundPath)
cacheSet(key, value) ==
  [k \in DOMAIN cache \cup {key} |-> IF k = key THEN value ELSE cache[k]]

DoFindPathResult(args, r) ==
  /\ last' = Call("findPath", args, r.out, r.key, r.hit, {h \in hist : h.args = args})
  /\ cache' = IF r.set THEN cacheSet(r.key, r.out.res) ELSE cache
  /\ hist' = hist \cup {[args |-> args, res |-> r.out.res, thrown |-> r.out.thrown]}
  /\ calls' = calls + 1
  /\ UNCHANGED <<fs, flags, env, processEnv>>

\* one call of findPath: its outcome is recorded and a found value is stored
DoFindPath(request, paths, isMain, fields, exts) ==
  DoFindPathResult(Args(request, paths, isMain, fields, exts, <<>>, undefined, <<>>),
                   findPath(request, paths, isMain, fields, exts))

\* the disks of the single-call specification
TopFileSets ==
  { {},
    {<<"/", "r", "/", "a", ".", "j", "s">>, <<"/", "r", "/", "a", ".", "m", "j", "s">>, <<"/", "s", "/", "a", ".", "j", "s">>},
    {<<"/", "r", "/", "a">>, <<"/", "r", "/", "a", ".", "j", "s">>},
    {<<"/", "s", "/", "a", ".", "j", "s">>},
    {<<"/", "r", "/", "p", ".", "j", "s">>, <<"/", "r", "/", "p", "/", "i", "n", "d", "e", "x", ".", "j", "s">>},
    {<<"/", "r", "/", "p", "/", "i", "n", "d", "e", "x", ".", "m", "j", "s">>, <<"/", "r", "/", "p", "/", "i", "n", "d", "e", "x", ".", "j", "s">>, <<"/", "r", "/", "a", ".", "m", "j", "s">>},
    {<<"/", "s", "/", "p", ".", "j", "s">>} }

PkgFileSets ==
  { {},
    {<<"/", "r", "/", "p", "/", "i", "n", "d", "e", "x", ".", "j", "s">>, <<"/", "r", "/", "p", "/", "m", ".", "j", "s">>, <<"/", "r", "/", "p", "/", "e", ".", "j", "s">>},
    {<<"/", "r", "/", "p", "/", "m", ".", "m", "j", "s">>, <<"/", "r", "/", "p", "/", "e", ".", "m", "j", "s">>, <<"/", "r", "/", "p", "/", "i", "n", "d", "e", "x", ".", "m", "j", "s">>, <<"/", "r", "/", "p", "/", "m", ".", "j", "s">>},
    {<<"/", "r", "/", "p", ".", "j", "s">>, <<"/", "r", "/", "p", "/", "e", ".", "j", "s">>} }

FindDescriptors ==
  { Json(<<>>, undefined),
    Json(<<Field(MAIN, StrVal(<<"m", ".", "j", "s">>))>>, undefined),
    Json(<<Field(MODULE_, StrVal(<<"m", ".", "m", "j", "s">>)), Field(MAIN, StrVal(<<"m", ".", "j", "s">>))>>, undefined),
    Json(<<Field(MODULE_, NumVal)>>, undefined),
    Json(<<>>, Str(<<".", "/", "e", ".", "j", "s">>)),
    Json(<<Field(MODULE_, StrVal(<<"m", ".", "m", "j", "s">>))>>, Str(<<".", "/", "e", ".", "m", "j", "s">>)),
    Json(<<>>, Arr(<<<<".", "/", "x", ".", "j", "s">>>>)),
    Json(<<>>, Obj(<<REQUIRE, DEFAULT>>, <<Arr(<<<<".", "/", "x", ".", "j", "s">>>>), Str(<<".", "/", "e", ".", "j", "s">>)>>)),
    Json(<<Field(MAIN, StrVal(<<"x", ".", "j", "s">>))>>, Obj(<<DOTKEY, <<".", "/", "f", "e", "a", "t", "u", "r", "e">>>>, <<Str(<<".", "/", "e", ".", "j", "s">>), Str(<<".", "/", "m", ".", "j", "s">>)>>)),
    Json(<<>>, Obj(<<<<".", "/", "l", "i", "b", "/", "*">>>>, <<Str(<<".", "/", "d", "i", "s", "t", "/", "*", ".", "j", "s">>)>>)) }

FindDisks ==
  {Disk(f, NoPkgs, Links) : f \in TopFileSets}
    \cup {Disk(f, PkgAt(PKG, d), Links) : f \in PkgFileSets, d \in FindDescriptors}
    \cup {Broken(Disk({<<"/", "r", "/", "a", ".", "j", "s">>, <<"/", "s", "/", "a", ".", "j", "s">>}, NoPkgs, Links), {ROOT2}),
          Broken(Disk({<<"/", "r", "/", "a", ".", "j", "s">>, <<"/", "s", "/", "a", ".", "j", "s">>}, NoPkgs, Links), {<<"/", "r", "/", "a", ".", "j", "s">>})}

FindFlags == {Flags(FALSE, FALSE, FALSE, FALSE), Flags(FALSE, TRUE, FALSE, TRUE),
              Flags(TRUE, FALSE, FALSE, FALSE)}

RelRequests == {<<"a">>, <<"a", ".", "j", "s">>, <<"p">>, <<"p", "/">>, <<".", "/", "p", "/", ".">>, <<"z", "z">>, <<".", ".", "/", "r", "/", "a", ".", "j", "s">>, <<".", ".", "/", "l", "/", "p">>}

AbsRequests == {<<"/", "r", "/", "a", ".", "j", "s">>, <<"/", "r", "/", ".", "/", "a", ".", "j", "s">>, <<"/", "r", "/", "a">>, <<"/", "r", "/", "p">>, <<"/", "r", "/", "p", "/">>, <<"/", "l", "/", "a", ".", "j", "s">>}

PathLists == {<<>>, <<ROOT>>, <<ROOT2, ROOT>>, <<<<"/", "x">>, <<"/", "r", "/", "a", ".", "j", "s">>, LINK, ROOT2>>}

\* fields and exts: both omitted, or both supplied
Options == {[fields |-> None, exts |-> None],
            [fields |-> Some(<<MODULE_, MAIN>>), exts |-> Some(<<MJS, JS>>)]}

InitFind ==
  /\ fs \in FindDisks
  /\ flags \in FindFlags
  /\ cache = EmptyCache
  /\ last = NoCall
  /\ hist = {}
  /\ calls = 0
  /\ env = NoOptions
  /\ processEnv = NoEnv

\* a first findPath call, on an empty cache
FindPathFresh ==
  /\ last.op = "none"
  /\ \E request \in RelRequests \cup AbsRequests, paths \in PathLists,
        isMain \in BOOLEAN, o \in Options :
       /\ isAbsolute(request) => paths \in {<<>>, <<ROOT2, ROOT>>}
       /\ DoFindPath(request, paths, isMain, o.fields, o.exts)

NextFind == FindPathFresh

SpecFind == InitFind /\ [][NextFind]_vars

\* the disks of the specification of repeated calls
CallDisks ==
  { Disk({}, NoPkgs, {}),
    Disk({<<"/", "r", "/", "a", ".", "j", "s">>, <<"/", "s", "/", "a", ".", "j", "s">>}, NoPkgs, {}),
    Disk({<<"/", "s", "/", "a", ".", "j", "s">>, <<"/", "r", "/", "p", "/", "i", "n", "d", "e", "x", ".", "j", "s">>}, PkgAt(PKG, Json(<<>>, undefined)), {}),
    Disk({}, PkgAt(PKG, Json(<<>>, undefined)), {}),
    Disk({<<"/", "r", "/", "p", "/", "i", "n", "d", "e", "x", ".", "j", "s">>}, PkgAt(PKG, Json(<<>>, Arr(<<<<".", "/", "x", ".", "j", "s">>>>))), {}),
    Disk({<<"/", "r", "/", "a", ".", "j", "s">>, <<"/", "r", "/", "p", "/", "e", ".", "j", "s">>}, PkgAt(PKG, Json(<<>>, Str(<<".", "/", "e", ".", "j", "s">>))), {}) }

CallFlags == {Flags(FALSE, FALSE, FALSE, FALSE), Flags(FALSE, TRUE, TRUE, FALSE)}

CallRequests == {<<"a">>, <<"p">>, <<"/", "r", "/", "a", ".", "j", "s">>}

CallPathLists == {<<>>, <<ROOT>>, <<ROOT2, ROOT>>}

MaxCalls == 2

Init ==
  /\ fs \in CallDisks
  /\ flags \in CallFlags
  /\ cache = EmptyCache
  /\ last = NoCall
  /\ hist = {}
  /\ calls = 0
  /\ env = NoOptions
  /\ processEnv = NoEnv

\* findPath(request, paths, isMain, fields, exts), against the cache the
\* earlier calls have filled
FindPathCall ==
  /\ calls < MaxCalls
  /\ \E request \in CallRequests, paths \in CallPathLists, exts \in {None, Some(<<JS>>)} :
       DoFindPath(request, paths, FALSE, None, exts)

Next == FindPathCall

Spec == Init /\ [][Next]_vars


-----------------------------------------------------------------------------
(* findPath calls whose argument lists differ in how they are split *)

KeyDisks ==
  { Disk({<<"/", "r", "/", "a", ".", "j", "s">>, <<"/", "r", "/", "a", ".", "m", "j", "s">>}, NoPkgs, {}),
    Disk({<<"/", "s", "/", "a", ".", "j", "s">>, <<"/", "r", "/", "a", ".", "j", "s">>}, NoPkgs, {}),
    Disk({<<"/", "r", "/", "p", "/", "m", ".", "j", "s">>, <<"/", "r", "/", "p", "/", "i", "n", "d", "e", "x", ".", "j", "s">>},
         PkgAt(PKG, Json(<<Field(MAIN, StrVal(<<"m", ".", "j", "s">>))>>, undefined)), {}) }

KeyRequests == {<<"a">>, <<"p">>}

\* two search paths, and one search path with a "," in its name
KeyPathLists == {<<ROOT2, ROOT>>, <<<<"/", "s", ",", "/", "r">>>>}

\* omitted, empty, two extensions, and one extension with a "," in it
KeyExts == {None, Some(<<>>), Some(<<MJS, JS>>), Some(<<<<".", "m", "j", "s", ",", ".", "j", "s">>>>)}

KeyFields == {None, Some(<<>>)}

InitKey ==
  /\ fs \in KeyDisks
  /\ flags = Flags(FALSE, FALSE, FALSE, FALSE)
  /\ cache = EmptyCache
  /\ last = NoCall
  /\ hist = {}
  /\ calls = 0
  /\ env = NoOptions
  /\ processEnv = NoEnv

\* findPath against the cache the earlier calls have filled
FindPathKeyed ==
  /\ calls < MaxCalls
  /\ \E request \in KeyRequests, paths \in KeyPathLists, isMain \in BOOLEAN,
        fields \in KeyFields, exts \in KeyExts :
       DoFindPath(request, paths, isMain, fields, exts)

NextKey == FindPathKeyed

SpecKey == InitKey /\ [][NextKey]_vars

-----------------------------------------------------------------------------
(* findPath calls on a filesystem that changes between them *)

\* the disks the filesystem moves between
ChangeDisks ==
  { Disk({}, NoPkgs, {}),
    Disk({<<"/", "r", "/", "a", ".", "j", "s">>, <<"/", "s", "/", "a", ".", "j", "s">>}, NoPkgs, {}),
    Disk({<<"/", "s", "/", "a", ".", "j", "s">>, <<"/", "r", "/", "p", "/", "i", "n", "d", "e", "x", ".", "j", "s">>}, PkgAt(PKG, Json(<<>>, Arr(<<<<".", "/", "x", ".", "j", "s">>>>))), {}) }

ChangeRequests == {<<"a">>, <<"p">>}

ChangePathLists == {<<ROOT>>, <<ROOT2, ROOT>>}

InitChange ==
  /\ fs \in ChangeDisks
  /\ flags = Flags(FALSE, FALSE, FALSE, FALSE)
  /\ cache = EmptyCache
  /\ last = NoCall
  /\ hist = {}
  /\ calls = 0
  /\ env = NoOptions
  /\ processEnv = NoEnv

\* findPath against the cache the earlier calls have filled
FindPathAgain ==
  /\ calls < MaxCalls
  /\ \E request \in ChangeRequests, paths \in ChangePathLists :
       DoFindPath(request, paths, FALSE, None, None)

\* files and descriptors are written or removed outside findPath; the cache
\* is not told
ChangeDisk ==
  /\ \E disk \in ChangeDisks \ {fs} : fs' = disk
  /\ last' = Call("change", NoArgs, Ret(<<>>, <<>>), <<>>, FALSE, {})
  /\ UNCHANGED <<flags, cache, hist, calls, env, processEnv>>

NextChange == FindPathAgain \/ ChangeDisk

SpecChange == InitChange /\ [][NextChange]_vars

-----------------------------------------------------------------------------
(* findPath calls on every short request *)

MaxRequestLen == 4

RequestChars == {"p", ".", "/"}

\* every request of at most MaxRequestLen characters, and three longer ones
TrailRequests ==
  UNION {[1..n -> RequestChars] : n \in 0..MaxRequestLen}
    \cup {<<"/", "r", "/", "p", "/">>, <<"/", "r", "/", "p", "p", "/", ".">>, <<"/", "r", "/", "p", "/", ".", ".">>}

TrailFiles == {<<"/", "r", "/", "p", "p">>, <<"/", "r", "/", "p", "p", ".", "j", "s">>, <<"/", "r", "/", "p", ".", "j", "s">>, <<"/", "r", "/", "p", "/", "i", "n", "d", "e", "x", ".", "j", "s">>, <<"/", "r", "/", "i", "n", "d", "e", "x", ".", "j", "s">>}

TrailDisks ==
  { Disk(TrailFiles, NoPkgs, {}),
    Disk(TrailFiles, PkgAt(PKG, Json(<<Field(MAIN, StrVal(<<".", ".", "/", "p", "p">>))>>, undefined)), {}),
    Disk({<<"/", "r", "/", "p", "p">>, <<"/", "r", "/", "p", ".", "j", "s">>}, PkgAt(PKG, Json(<<>>, undefined)), {}) }

InitTrail ==
  /\ fs \in TrailDisks
  /\ flags \in {Flags(FALSE, FALSE, FALSE, FALSE), Flags(FALSE, TRUE, TRUE, FALSE)}
  /\ cache = EmptyCache
  /\ last = NoCall
  /\ hist = {}
  /\ calls = 0
  /\ env = NoOptions
  /\ processEnv = NoEnv

\* a first findPath call, searching /r
FindPathTrail ==
  /\ last.op = "none"
  /\ \E request \in TrailRequests : DoFindPath(request, <<ROOT>>, FALSE, None, None)

NextTrail == FindPathTrail

SpecTrail == InitTrail /\ [][NextTrail]_vars

-----------------------------------------------------------------------------
(* env/get-options.js *)

APOSTROPHE == "'"

LEFT_CURLY_BRACKET == "{"

QUOTE == "\""

\* the working directory of the process, which resolve starts from
cwd == ROOT

RECURSIVE trimStart(_)
trimStart(s) == IF s # <<>> /\ Head(s) = " " THEN trimStart(Tail(s)) ELSE s

RECURSIVE trimEnd(_)
trimEnd(s) ==
  IF s # <<>> /\ s[Len(s)] = " " THEN trimEnd(SubSeq(s, 1, Len(s) - 1)) ELSE s

trim(s) == trimEnd(trimStart(s))

\* util/is-path.js: a non-empty string that is a relative path ("." or "..",
\* alone or followed by a separator) or an absolute path
isPath(value) ==
  /\ value # <<>>
  /\ \/ isAbsolute(value)
     \/ /\ value[1] = "."
        /\ \/ Len(value) = 1
           \/ value[2] = "/"
           \/ /\ value[2] = "."
              /\ Len(value) = 2 \/ value[3] = "/"

\* fs/read-file.js: the content of the file, or null when it cannot be read
readFile(filename) ==
  Ret(IF filename \in DOMAIN fs.text THEN StrVal(fs.text[filename]) ELSE Null,
      <<Probe("readFile", filename)>>)

\* text is a literal between the delimiters open and close
isEnclosed(text, open, close) ==
  /\ Len(text) >= 2
  /\ text[1] = open
  /\ text[Len(text)] = close
  /\ \A i \in 2..(Len(text) - 1) : text[i] \notin {open, close}

\* util/parse-json6.js: the value text denotes (a string, or an object by
\* its members), or null when text is not well formed
parseJSON6(text) ==
  IF isEnclosed(text, APOSTROPHE, APOSTROPHE) \/ isEnclosed(text, QUOTE, QUOTE)
  THEN StrVal(SubSeq(text, 2, Len(text) - 1))
  ELSE IF isEnclosed(text, LEFT_CURLY_BRACKET, "}")
  THEN [t |-> "obj", s |-> SubSeq(text, 2, Len(text) - 1)]
  ELSE Null

\* getOptions from the test of the first character on
getOptionsValue(options, log) ==
  Ret(IF options[1] \in {APOSTROPHE, LEFT_CURLY_BRACKET, QUOTE}
      THEN parseJSON6(options)
      ELSE StrVal(options),
      log)

\* getOptions from the test of ! options on, for a string
getOptionsText(options, log) ==
  IF options = <<>> THEN Ret(Null, log) ELSE getOptionsValue(options, log)

\* getOptions after readFile
getOptionsRead(read) ==
  IF read.res.t # "str" THEN Ret(Null, read.log) ELSE getOptionsText(read.res.s, read.log)

\* getOptions after trim
getOptionsTrimmed(options) ==
  IF isPath(options)
  THEN getOptionsRead(readFile(resolve(cwd, options)))
  ELSE getOptionsText(options, <<>>)

\* getOptions when nothing is stored: the environment is read
getOptionsEnv(processenv) ==
  after(<<Probe("env", <<>>)>>,
        IF ~processenv.present \/ processenv.ESM_OPTIONS.t # "str"
        THEN Ret(Null, <<>>)
        ELSE getOptionsTrimmed(trim(processenv.ESM_OPTIONS.s)))

\* a faulty getOptions that computes the options on every call: what
\* computing them once rules out
getOptionsFresh == [out |-> getOptionsEnv(processEnv), set |-> TRUE]

\* getOptions(): the options, and whether they are stored as env.options
getOptions ==
  IF env.has
  THEN [out |-> Ret(env.options, <<>>), set |-> FALSE]
  ELSE [out |-> getOptionsEnv(processEnv), set |-> TRUE]

-----------------------------------------------------------------------------
(* getOptions calls in a process whose environment and files change *)

\* a disk with the given files and their contents
TextDisk(text) ==
  [files |-> DOMAIN text, dirs |-> BaseDirs, pkgs |-> NoPkgs, links |-> {},
   broken |-> {}, text |-> text]

OptionDisks ==
  { TextDisk([p \in {} |-> <<>>]),
    TextDisk([p \in {<<"/", "r", "/", "o", ".", "j", "s", "o", "n">>} |-> <<"{", "b", ":", "2", "}">>]),
    TextDisk([p \in {<<"/", "r", "/", "o", ".", "j", "s", "o", "n">>} |-> <<" ", "e", "s", "m">>]),
    TextDisk([p \in {<<"/", "r", "/", "o", ".", "j", "s", "o", "n">>} |-> <<>>]) }

OptionEnvs ==
  { NoEnv, [present |-> FALSE, ESM_OPTIONS |-> [t |-> "undef", s |-> <<>>]],
    Env(NumVal), Env(StrVal(<<>>)), Env(StrVal(<<" ", " ">>)), Env(StrVal(<<" ", "c", "j", "s", " ">>)),
    Env(StrVal(<<"{", "a", ":", "1", "}">>)), Env(StrVal(<<" ", "'", "x", "'", " ">>)), Env(StrVal(<<"{", "a">>)),
    Env(StrVal(<<".", "/", "o", ".", "j", "s", "o", "n">>)), Env(StrVal(<<"/", "r", "/", "o", ".", "j", "s", "o", "n", " ">>)), Env(StrVal(<<".", "o">>)) }

InitOptions ==
  /\ fs \in OptionDisks
  /\ flags = Flags(FALSE, FALSE, FALSE, FALSE)
  /\ cache = EmptyCache
  /\ last = NoCall
  /\ hist = {}
  /\ calls = 0
  /\ env = NoOptions
  /\ processEnv \in OptionEnvs

\* one call of getOptions: its outcome is recorded and a computed value is
\* stored as env.options
DoGetOptions(r) ==
  /\ last' = Call("getOptions", NoArgs, r.out, <<>>, ~r.set, {})
  /\ env' = IF r.set THEN [has |-> TRUE, options |-> r.out.res] ELSE env
  /\ calls' = calls + 1
  /\ UNCHANGED <<fs, flags, cache, hist, processEnv>>

GetOptionsCall ==
  /\ calls < MaxCalls
  /\ DoGetOptions(getOptions)

\* ESM_OPTIONS is set, changed or removed
ChangeEnv ==
  /\ \E e \in OptionEnvs \ {processEnv} : processEnv' = e
  /\ last' = Call("change", NoArgs, Ret(<<>>, <<>>), <<>>, FALSE, {})
  /\ UNCHANGED <<fs, flags, cache, hist, calls, env>>

\* the options file is written or removed
ChangeFile ==
  /\ \E disk \in OptionDisks \ {fs} : fs' = disk
  /\ last' = Call("change", NoArgs, Ret(<<>>, <<>>), <<>>, FALSE, {})
  /\ UNCHANGED <<flags, cache, hist, calls, env, processEnv>>

NextOptions == GetOptionsCall \/ ChangeEnv \/ ChangeFile

SpecOptions == InitOptions /\ [][NextOptions]_vars

-----------------------------------------------------------------------------
(* Properties.  a stands for the arguments of the last call, o for its    *)
(* outcome.                                                                *)

a == last.args

o == last.out

isFindPath == last.op = "findPath"

isTryPackage == last.op = "tryPackage"

isResolveExports == last.op = "resolveExports"

found(h) == ~h.thrown /\ h.res # <<>>

\* the least element of a non-empty set of numbers
least(S) == CHOOSE i \in S : \A j \in S : i <= j

probed(op) == \E i \in 1..Len(o.log) : o.log[i].op = op

\* the elements of a sequence
Range(s) == {s[i] : i \in 1..Len(s)}

-----------------------------------------------------------------------------
(* C1: memoization *)

-----------------------------------------------------------------------------
(* C2: wildcard patterns of the exports map *)

\* the characters of s
chars(s) == {s[i] : i \in 1..Len(s)}

\* ./subpath
dotted(subpath) == <<".", "/">> \o subpath

\* key is prefix*suffix and ./subpath starts with prefix and ends with suffix
patternMatches(key, subpath) ==
  /\ "*" \in chars(key)
  /\ startsWith(dotted(subpath), SubSeq(key, 1, indexOf(key, "*") - 1))
  /\ endsWith(dotted(subpath), SubSeq(key, indexOf(key, "*") + 1, Len(key)))
  /\ Len(dotted(subpath)) >= Len(key) - 1

\* what * stands for: ./subpath without the prefix and the suffix of key
middle(key, subpath) ==
  SubSeq(dotted(subpath), indexOf(key, "*"),
         Len(dotted(subpath)) - (Len(key) - indexOf(key, "*")))

\* the first declared key that is no well-known condition and whose prefix
\* (and suffix) ./subpath has
firstPattern(exports, subpath) ==
  least({i \in 1..Len(exports.k) :
           /\ exports.k[i] \notin wellKnownConditions
           /\ IF "*" \in chars(exports.k[i]) THEN patternMatches(exports.k[i], subpath)
              ELSE startsWith(dotted(subpath), exports.k[i])})

onPattern ==
  /\ isResolveExports
  /\ a.exports.t = "obj"
  /\ a.subpath # <<>>
  /\ \A c \in {REQUIRE, NODE, DEFAULT} : ~truthy(prop(a.exports, c))
  /\ \E i \in 1..Len(a.exports.k) :
       a.exports.k[i] \notin wellKnownConditions /\ patternMatches(a.exports.k[i], a.subpath)
  /\ patternMatches(a.exports.k[firstPattern(a.exports, a.subpath)], a.subpath)
  /\ a.exports.c[firstPattern(a.exports, a.subpath)].t = "str"
  /\ "*" \in chars(a.exports.c[firstPattern(a.exports, a.subpath)].s)

\* C2: on a mapping with none of require, node, default, when the
\* matching key is prefix*suffix (suffix possibly empty) and its value a
\* string with a *, resolveExports returns the package directory joined with
\* the value in which * is replaced by the middle of ./subpath.
C2_StarIsSubstituted ==
  onPattern =>
    o.res = join(a.dirPath,
                 replaceStar(a.exports.c[firstPattern(a.exports, a.subpath)].s,
                             middle(a.exports.k[firstPattern(a.exports, a.subpath)], a.subpath)))

-----------------------------------------------------------------------------
(* C3: an exports declaration that yields nothing *)

\* the descriptor of the package directory
theJson == jsonAt(a.dirPath)

\* dirPath/index + the first extension that names a file, "" if none does
indexFile(dirPath, exts) ==
  IF \E i \in 1..Len(exts) : (dirPath \o sep \o INDEX \o exts[i]) \in fs.files
  THEN dirPath \o sep \o INDEX
         \o exts[least({i \in 1..Len(exts) : (dirPath \o sep \o INDEX \o exts[i]) \in fs.files})]
  ELSE <<>>

\* the outcome is that of the index fallback of a directory with a descriptor
isIndexFallback ==
  IF indexFile(a.dirPath, a.exts.v) = <<>> THEN o.thrown
  ELSE ~o.thrown /\ o.res = indexFile(a.dirPath, a.exts.v)

\* what the exports declaration gives for the request
exportsResult ==
  resolveExports(theJson.exports, a.dirPath,
                 substring(a.request, Len(a.dirPath) + 1, Len(a.request))).res

exportsYieldNothing ==
  /\ isTryPackage
  /\ theJson.present
  /\ tryFields(theJson, a.dirPath, a.fields.v, a.exts.v, a.isMain, 1).res = <<>>
  /\ truthy(theJson.exports)
  /\ exportsResult = null

\* C3: when the exports declaration yields no result, tryPackage gives the
\* index fallback: dirPath/index + the first extension naming a file, or
\* MAIN_NOT_FOUND when there is none, and never another value.
C3_NoExportFallsToIndex == exportsYieldNothing => isIndexFallback

-----------------------------------------------------------------------------
(* C4: the request MAIN_NOT_FOUND carries *)

\* C4: a MAIN_NOT_FOUND raised by findPath carries the request as the
\* caller passed it, and the package.json of the candidate directory.
C4_ErrorCarriesRequest ==
  (isFindPath /\ o.thrown) =>
    /\ o.err.request = a.request
    /\ endsWith(o.err.jsonPath, sep \o PACKAGE_JSON)

-----------------------------------------------------------------------------
(* C5: the order of the strategies for one candidate *)

useRealpath == useRealpathOf(a.isMain)

\* a relative request without trailing slash, searched under one directory
oneCandidate ==
  /\ isFindPath
  /\ ~isAbsolute(a.request)
  /\ ~trailingSlash(a.request)
  /\ Len(a.paths) = 1
  /\ kind(a.paths[1]) = 1
  /\ canon(a.paths[1]) \notin fs.broken

\* the candidate path
theCandidate ==
  resolve(IF useRealpath THEN canon(a.paths[1]) ELSE a.paths[1], a.request)

\* a value of an exports declaration that is a result
usable(e) == IF e = null \/ isExtMJS(e) THEN <<>> ELSE e

\* what each strategy gives for the candidate, in the order of the chain
strategies ==
  << IF kind(theCandidate) # 0 THEN <<>>
     ELSE IF useRealpath THEN realpath(theCandidate).res ELSE theCandidate,
     tryExtensions(theCandidate, theExts(a.exts), a.isMain).res >>
  \o (IF kind(theCandidate) # 1 THEN <<>>
      ELSE IF ~jsonAt(canon(theCandidate)).present
      THEN << tryExtensions(theCandidate \o sep \o INDEX, theExts(a.exts), a.isMain).res >>
      ELSE << tryFields(jsonAt(canon(theCandidate)), theCandidate, theFields(a.fields),
                        theExts(a.exts), a.isMain, 1).res,
              IF truthy(jsonAt(canon(theCandidate)).exports)
              THEN usable(resolveExports(jsonAt(canon(theCandidate)).exports, theCandidate,
                                         substring(a.request, Len(theCandidate) + 1,
                                                   Len(a.request))).res)
              ELSE <<>>,
              tryExtensions(theCandidate \o sep \o INDEX, theExts(a.exts), a.isMain).res >>)

succeeding == {i \in 1..Len(strategies) : strategies[i] # <<>>}

\* C5: the result for a candidate is that of the first strategy that
\* succeeds in the order exact file, extensions, package fields, exports,
\* index; nothing is returned when none does, and the descriptor is not read
\* when the exact file or an extension succeeds.
C5_FirstStrategyWins ==
  oneCandidate =>
    IF succeeding = {} THEN o.thrown \/ o.res = <<>>
    ELSE /\ ~o.thrown
         /\ o.res = strategies[least(succeeding)]
         /\ least(succeeding) <= 2 => ~probed("readPackage")

-----------------------------------------------------------------------------
(* C6: ESM-flagged paths of fields and exports *)

\* what field number i of the call gives
fieldResult(i) == tryField(a.dirPath, fieldOf(theJson, a.fields.v[i]), a.exts.v, a.isMain).res

\* the fields whose result the loop accepts
accepted ==
  {i \in 1..Len(a.fields.v) :
     fieldResult(i) # <<>> /\ (a.fields.v[i] = MAIN \/ ~isExtMJS(fieldResult(i)))}

\* C6: tryPackage returns the result of the first field that resolves and
\* that is named main or gives no .mjs path; a .mjs path of the exports
\* declaration is passed over for the index fallback; hence a .mjs path that
\* is returned comes from the field main or from the index fallback.
C6_EsmPathsAreRejected ==
  (isTryPackage /\ theJson.present) =>
    /\ accepted # {} => (~o.thrown /\ o.res = fieldResult(least(accepted)))
    /\ (accepted = {} /\ truthy(theJson.exports) /\ isExtMJS(exportsResult)) => isIndexFallback
    /\ (~o.thrown /\ isExtMJS(o.res)) =>
         \/ accepted # {} /\ a.fields.v[least(accepted)] = MAIN
         \/ accepted = {} /\ o.res = indexFile(a.dirPath, a.exts.v)

\* a field that is not main gave a .mjs path and the chain went on
C6_Witness ==
  /\ isTryPackage
  /\ theJson.present
  /\ \E i \in 1..Len(a.fields.v) :
       /\ a.fields.v[i] # MAIN
       /\ isExtMJS(fieldResult(i))
       /\ \A j \in 1..(i - 1) : fieldResult(j) = <<>>
       /\ o.res # fieldResult(i)
  /\ ~o.thrown

-----------------------------------------------------------------------------
(* C7: the precedence of the conditions *)

precedence == <<REQUIRE, NODE, DEFAULT, DOTKEY>>

\* the conditions of the call that are present, "." only for no subpath
present ==
  {i \in 1..4 : truthy(prop(a.exports, precedence[i])) /\ (i = 4 => a.subpath = <<>>)}

\* what condition number i gives
conditionResult(i) == resolveExports(prop(a.exports, precedence[i]), a.dirPath, a.subpath).res

yielding == {i \in present : conditionResult(i) # null}

\* C7, as stated: the result is that of the first present condition, in
\* the order require, node, default, ".", whose resolution yields a result;
\* a present condition that yields none does not stop a later one.
C7_FirstYieldingCondition ==
  (isResolveExports /\ a.exports.t = "obj" /\ yielding # {}) =>
    o.res = conditionResult(least(yielding))

\* C7, amended: the result is that of the first present condition in the
\* order require, node, default, "." (the last only for an empty subpath),
\* whatever it yields: when it yields no result, no later condition and no
\* pattern is tried and resolveExports yields no result.
C7_FirstPresentCondition ==
  (isResolveExports /\ a.exports.t = "obj" /\ present # {}) =>
    o.res = conditionResult(least(present))

\* the first present condition yields nothing, a later one would
C7_Witness ==
  /\ isResolveExports
  /\ a.exports.t = "obj"
  /\ yielding # {}
  /\ least(present) < least(yielding)
  /\ o.res = null

-----------------------------------------------------------------------------
(* C8: the order of the search paths *)

\* the loop body for search path number i of the call
candidateAt(i) ==
  candidate(a.paths[i], a.request, FALSE, a.isMain, a.fields, a.exts,
            trailingSlash(a.request))

\* the search paths that end the loop
ending == {i \in 1..Len(a.paths) : candidateAt(i).res # <<>> \/ candidateAt(i).thrown}

\* the probes of the search paths 1..n, in order
RECURSIVE probesUpTo(_)
probesUpTo(n) == IF n = 0 THEN <<>> ELSE probesUpTo(n - 1) \o candidateAt(n).log

\* C8: for a request that is not absolute, findPath gives what the first
\* search path with a result gives and probes no later one; a search path
\* that is no directory, or that cannot be canonicalized, is passed over
\* after that one probe; with no result at all it returns "".
C8_EarliestSearchPathWins ==
  (isFindPath /\ ~isAbsolute(a.request)) =>
    /\ IF ending = {}
       THEN o.res = <<>> /\ ~o.thrown /\ o.log = probesUpTo(Len(a.paths))
       ELSE /\ o.res = candidateAt(least(ending)).res
            /\ o.thrown = candidateAt(least(ending)).thrown
            /\ o.log = probesUpTo(least(ending))
    /\ \A i \in 1..Len(a.paths) :
         /\ kind(a.paths[i]) # 1 =>
              candidateAt(i) = Ret(<<>>, <<Probe("statFast", a.paths[i])>>)
         /\ (kind(a.paths[i]) = 1 /\ useRealpath /\ canon(a.paths[i]) \in fs.broken) =>
              candidateAt(i) = Ret(<<>>, <<Probe("statFast", a.paths[i]),
                                           Probe("realpath", a.paths[i])>>)

\* a search path was passed over, a later one gave the result and one more
\* was left alone
C8_Witness ==
  /\ isFindPath
  /\ ~isAbsolute(a.request)
  /\ ending # {}
  /\ least(ending) > 1
  /\ least(ending) < Len(a.paths)
  /\ kind(a.paths[1]) # 1
  /\ ~o.thrown
  /\ o.res = candidateAt(least(ending)).res

-----------------------------------------------------------------------------
(* C9: an absolute request that names a file *)

\* an absolute request for an existing script file, symbolic links being
\* resolved and none on the path
absoluteFile ==
  /\ isFindPath
  /\ isAbsolute(a.request)
  /\ kind(a.request) = 0
  /\ isExtJS(a.request) \/ isExtMJS(a.request)
  /\ useRealpath
  /\ linksOn(normalize(a.request)) = {}

\* C9, as stated: findPath returns exactly the request.
C9_ReturnsTheRequest == absoluteFile => (~o.thrown /\ o.res = a.request)

\* C9, amended: findPath returns the request in normalized form (the
\* request itself when it is normalized), provided the directory and the
\* file can be canonicalized.
C9_ReturnsTheNormalizedRequest ==
  (absoluteFile /\ fs.broken = {}) => (~o.thrown /\ o.res = normalize(a.request))

\* a request that is not normalized, answered with its normalized form
C9_Witness ==
  /\ absoluteFile
  /\ fs.broken = {}
  /\ a.request # normalize(a.request)
  /\ o.res = normalize(a.request)
  /\ a.paths # <<>>
  /\ a.fields.some

-----------------------------------------------------------------------------
(* C10: the values findPath returns and stores *)

isPathValue(v) == v # null /\ v # <<>> /\ isAbsolute(v)

\* C10: every value findPath returns is "" or a non-empty absolute path,
\* and every stored value is a non-empty absolute path; none is null.
C10_OnlyPaths ==
  /\ (isFindPath /\ ~o.thrown) => (o.res = <<>> \/ isPathValue(o.res))
  /\ \A k \in DOMAIN cache : isPathValue(cache[k])

-----------------------------------------------------------------------------
(* C11: the cache is write-once *)

\* C11: a key that holds a value keeps that value in every later state,
\* and a findPath call whose key holds a value returns that value with no
\* filesystem probe, whatever the filesystem has become.
C11_WriteOnce ==
  [][/\ \A k \in DOMAIN cache : k \in DOMAIN cache' /\ cache'[k] = cache[k]
     /\ (calls' = calls + 1 /\ last'.key \in DOMAIN cache) =>
          /\ last'.hit
          /\ last'.out.res = cache[last'.key]
          /\ last'.out.log = <<>>]_vars

\* a call answered from the cache with a file that is no longer there
C11_Witness ==
  /\ isFindPath
  /\ last.hit
  /\ o.res # null
  /\ kind(o.res) = -1
  /\ cache[last.key] = o.res

-----------------------------------------------------------------------------
(* C12: the deprecation warning *)

\* a requested field other than main has a value that is no string
malformedField ==
  \E i \in 1..Len(a.fields.v) :
    a.fields.v[i] # MAIN /\ fieldOf(theJson, a.fields.v[i]).t # "str"

\* the exports declaration gives the value tryPackage returns
exportsAccepted ==
  truthy(theJson.exports) /\ exportsResult # <<>> /\ ~isExtMJS(exportsResult)

\* the call came to the index fallback of a directory with a descriptor
\* and the fallback found a file
byIndexFallback ==
  /\ theJson.present
  /\ accepted = {}
  /\ ~exportsAccepted
  /\ indexFile(a.dirPath, a.exts.v) # <<>>

\* C12, as stated: the warning is emitted only when the deprecation mode
\* is on, the descriptor exists, the index fallback gave the result and a
\* requested field other than main had a value that is no string.
C12_WarningOnlyForMalformedField ==
  (isTryPackage /\ o.warn.emitted) =>
    /\ flags.pendingDeprecation
    /\ byIndexFallback
    /\ malformedField

\* C12, amended: the warning is emitted exactly when the deprecation mode
\* is on, the descriptor exists and the index fallback gave the result,
\* whatever the requested fields and their values are; it names the last
\* requested field with its value, and the path returned is the one of the
\* index fallback.
C12_WarningOnIndexFallback ==
  isTryPackage =>
    /\ o.warn.emitted <=> (flags.pendingDeprecation /\ byIndexFallback)
    /\ byIndexFallback => (~o.thrown /\ o.res = indexFile(a.dirPath, a.exts.v))
    /\ o.warn.emitted =>
         /\ o.warn.field = (IF a.fields.v = <<>> THEN <<>> ELSE a.fields.v[Len(a.fields.v)])
         /\ a.fields.v # <<>> => o.warn.value = fieldOf(theJson, o.warn.field)

\* the warning for a main that is a string and names no file
C12_Witness ==
  /\ isTryPackage
  /\ o.warn.emitted
  /\ a.fields.v = <<MAIN>>
  /\ fieldOf(theJson, MAIN).t = "str"
  /\ o.res = indexFile(a.dirPath, a.exts.v)

-----------------------------------------------------------------------------
(* C13: a request that denotes a directory *)

\* the request ends with a separator, or with . or .. after a separator
denotesDirectory(request) ==
  \/ endsWith(request, sep)
  \/ endsWith(request, <<"/", ".">>)
  \/ endsWith(request, <<"/", ".", ".">>)

\* the candidate path of a call with one search path
soleCandidate ==
  canon(IF isAbsolute(a.request) THEN a.request ELSE resolve(a.paths[1], a.request))

\* C13: trailingSlash holds exactly for a request that ends with a
\* separator, or with . or .. right after a separator; for such a request
\* findPath returns neither the candidate nor the candidate with an
\* extension, but only what the package resolver gives for a candidate that
\* is a directory.
C13_TrailingSlash ==
  isFindPath =>
    /\ trailingSlash(a.request) <=> denotesDirectory(a.request)
    /\ (denotesDirectory(a.request) /\ ~o.thrown /\ o.res # <<>>) =>
         /\ kind(soleCandidate) = 1
         /\ probed("readPackage")
         /\ canon(o.res) \notin {soleCandidate} \cup {soleCandidate \o moduleExtensions[i] : i \in 1..Len(moduleExtensions)}
         /\ canon(o.res) = canon(tryPackage(a.request, soleCandidate, mainFields,
                                             moduleExtensions, FALSE).res)
    /\ (denotesDirectory(a.request) /\ kind(soleCandidate) # 1) => (~o.thrown /\ o.res = <<>>)

\* a request with a trailing slash whose candidate has a file beside it
C13_Witness ==
  /\ isFindPath
  /\ trailingSlash(a.request)
  /\ (soleCandidate \o JS) \in fs.files
  /\ o.res # <<>>
  /\ o.res # soleCandidate \o JS

-----------------------------------------------------------------------------
(* C14: the fields of the descriptor *)

\* the value of field number i of the call
fieldValue(i) == fieldOf(theJson, a.fields.v[i])

\* the paths tried for a field value, in order: the resolved value, the
\* value with each extension, the index of the value with each extension
pathsOf(thePath, exts) ==
  << thePath >>
    \o [k \in 1..Len(exts) |-> thePath \o exts[k]]
    \o [k \in 1..Len(exts) |-> thePath \o sep \o INDEX \o exts[k]]

fieldPaths(i) == pathsOf(resolve(a.dirPath, fieldValue(i).s), a.exts.v)

\* the first of the paths that is a file, "" for none
firstFile(paths) ==
  LET files == {k \in 1..Len(paths) : kind(paths[k]) = 0}
  IN IF files = {} THEN <<>> ELSE paths[least(files)]

\* what field number i stands for, "" for a value that is no string
fieldFile(i) == IF fieldValue(i).t # "str" THEN <<>> ELSE firstFile(fieldPaths(i))

acceptedFiles ==
  {i \in 1..Len(a.fields.v) :
     LET file == fieldFile(i)
     IN file # <<>> /\ (a.fields.v[i] = MAIN \/ ~isExtMJS(file))}

\* C14: tryField gives "" for a value that is no string and otherwise the
\* first file among the resolved value, the value with each extension and
\* the index of the value with each extension; tryPackage returns what the
\* first field in caller order with an accepted result gives.
C14_FieldsInOrder ==
  (isTryPackage /\ theJson.present) =>
    /\ \A i \in 1..Len(a.fields.v) :
         LET f == tryField(a.dirPath, fieldValue(i), a.exts.v, a.isMain)
         IN ~f.thrown /\ f.res = fieldFile(i)
    /\ LET files == acceptedFiles
       IN files # {} => (~o.thrown /\ o.res = fieldFile(least(files)))

\* a value with an extension is taken although its index exists too
C14_Witness ==
  /\ isTryPackage
  /\ theJson.present
  /\ acceptedFiles # {}
  /\ fieldPaths(least(acceptedFiles))[2] = o.res
  /\ kind(resolve(a.dirPath, fieldValue(least(acceptedFiles)).s) \o sep \o INDEX \o JS) = 0

-----------------------------------------------------------------------------
(* C15: a directory without descriptor *)

\* the directory search path number i is searched as
baseAt(i) == IF useRealpath THEN canon(a.paths[i]) ELSE a.paths[i]

\* the candidate path under search path number i
candidatePathAt(i) == resolve(baseAt(i), a.request)

\* search path number i is searched and its candidate is a directory
\* without descriptor
bareDirectoryAt(i) ==
  /\ kind(a.paths[i]) = 1
  /\ canon(a.paths[i]) \notin fs.broken
  /\ kind(candidatePathAt(i)) = 1
  /\ ~jsonAt(canon(candidatePathAt(i))).present

\* the index file of a directory: the first extension that names a file
indexOfDirectory(dirPath, exts) ==
  LET file == firstFile([k \in 1..Len(exts) |-> dirPath \o sep \o INDEX \o exts[k]])
  IN IF file # <<>> /\ useRealpath THEN canon(file) ELSE file

\* C15: MAIN_NOT_FOUND names the package.json of a directory that has a
\* descriptor; for a candidate directory without descriptor tryPackage gives
\* the index file of the first extension that names one, or "", and does
\* not raise, and findPath goes on to the next search path after "".
C15_NoDescriptorNoError ==
  (isFindPath /\ ~isAbsolute(a.request)) =>
    /\ o.thrown =>
         /\ endsWith(o.err.jsonPath, sep \o PACKAGE_JSON)
         /\ jsonAt(canon(SubSeq(o.err.jsonPath, 1,
                                Len(o.err.jsonPath) - Len(PACKAGE_JSON) - 1))).present
    /\ \A i \in 1..Len(a.paths) :
         bareDirectoryAt(i) =>
           LET t == tryPackage(a.request, candidatePathAt(i), theFields(a.fields),
                               theExts(a.exts), a.isMain)
               c == candidateAt(i)
           IN /\ ~t.thrown
              /\ t.res = indexOfDirectory(candidatePathAt(i), theExts(a.exts))
              /\ ~c.thrown
              /\ c.res \in {t.res, tryExtensions(candidatePathAt(i), theExts(a.exts),
                                                 a.isMain).res}
              /\ (c.res = <<>> /\ i < Len(a.paths) /\ \A j \in 1..(i - 1) : j \notin ending) =>
                   probed("statFast") /\ Probe("statFast", a.paths[i + 1]) \in Range(o.log)

\* a directory without descriptor and without index is passed over and the
\* next search path gives the result
C15_Witness ==
  /\ isFindPath
  /\ ~isAbsolute(a.request)
  /\ \E i \in 1..Len(a.paths) :
       /\ bareDirectoryAt(i)
       /\ candidateAt(i).res = <<>>
       /\ i < Len(a.paths)
       /\ ending # {}
       /\ least(ending) > i
  /\ ~o.thrown
  /\ o.res # <<>>

-----------------------------------------------------------------------------
(* C16: the symlink policy *)

\* the path is what realpath gives for some file: realpath gives it for itself
isRealpathOutput == realpath(o.res).res = o.res

\* C16: a path findPath computes and returns is, when useRealpath holds for
\* the call, the output of realpath on the file found, whichever strategy
\* found it; when it does not hold, realpath is called on nothing.
C16_SymlinkPolicy ==
  (isFindPath /\ ~last.hit /\ ~o.thrown /\ o.res # <<>>) =>
    IF useRealpath THEN isRealpathOutput ELSE ~probed("realpath")

-----------------------------------------------------------------------------
(* C18: the result is a file *)

\* C18: a path findPath computes and returns names a regular file of the
\* disk of that call, a path derived from the exports declaration included.
C18_ResultIsAFile ==
  (isFindPath /\ ~last.hit /\ ~o.thrown /\ o.res # <<>>) => kind(o.res) = 0

-----------------------------------------------------------------------------
(* C17: the cache key *)

\* the cache key of the arguments of a call
keyOf(args) == cacheKey(args.request, args.paths, args.isMain, args.fields, args.exts)

\* C17: findPath calls with different arguments (request, search paths,
\* fields, exts, isMain) have different cache keys, fields or exts omitted
\* or supplied and lists that differ in how their elements are split
\* included, and a call answered from the cache is answered with the result
\* of an earlier call with the same arguments.
C17_KeySeparatesTuples ==
  /\ \A h1, h2 \in hist : keyOf(h1.args) = keyOf(h2.args) => h1.args = h2.args
  /\ (isFindPath /\ last.hit) => \E h \in last.prior : ~h.thrown /\ h.res = o.res

-----------------------------------------------------------------------------
(* C19: getOptions *)

isGetOptions == last.op = "getOptions"

\* the text getOptions takes the options from: ESM_OPTIONS trimmed, or the
\* content of the file it names
optionsText ==
  LET trimmed == trim(processEnv.ESM_OPTIONS.s)
  IN IF ~isPath(trimmed) THEN StrVal(trimmed)
     ELSE IF resolve(cwd, trimmed) \in DOMAIN fs.text
          THEN StrVal(fs.text[resolve(cwd, trimmed)])
          ELSE Null

\* the options of the environment and the files as they are
options ==
  IF ~processEnv.present \/ processEnv.ESM_OPTIONS.t # "str" THEN Null
  ELSE IF optionsText = Null \/ optionsText.s = <<>> THEN Null
  ELSE IF optionsText.s[1] \in {"'", "\"", "{"} THEN parseJSON6(optionsText.s)
  ELSE optionsText

\* C19: the first getOptions call stores the options of the environment and
\* the files as env.options; what is stored is never changed, and every later
\* call returns it and reads neither the environment nor a file, whatever
\* ESM_OPTIONS and the files have become.
C19_ComputedOnce ==
  [][/\ env.has => env' = env
     /\ (calls' = calls + 1 /\ env.has) =>
          /\ last'.out.res = env.options
          /\ last'.out.log = <<>>
     /\ (calls' = calls + 1 /\ ~env.has) =>
          /\ env' = [has |-> TRUE, options |-> options]
          /\ last'.out.res = options]_vars

\* a later call returns the stored options although the environment and the
\* files now give others
C19_Witness ==
  /\ isGetOptions
  /\ last.hit
  /\ env.has
  /\ o.res = env.options
  /\ options # env.options
  /\ env.options # Null

====
